---- MODULE Spec2Model ----
(***************************************************************************)
(* A model of bean's main(): a Wayland client that discovers the globals,  *)
(* creates one surface and shell surface, binds the seat, creates the      *)
(* pointer and keyboard devices on demand and then dispatches forever.     *)
(* The client is one thread; the server is the environment: it answers     *)
(* requests and sends events to the objects the client has created.        *)
(***************************************************************************)
EXTENDS Naturals, Sequences, FiniteSets, TLC

\* ------------------------------------------------------------------ bounds
\* The number of events the server sends of its own accord in one run (the
\* answer to the seat bind is not counted).
MaxEvents == 2
\* Ping serials are drawn from 1..MaxSerial.
MaxSerial == 2
\* A bind taken alone: globals are advertised at, and binds ask for, a
\* version in 1..MaxVersion.
MaxVersion == 2

\* -------------------------------------------------------- protocol values
\* wl_seat::Capability bits.
Pointer == 1
Keyboard == 2
Touch == 4
AllCapabilities == 0..(Pointer + Keyboard + Touch)

\* Capability::contains on the bitfield of a Capabilities event.
contains(capabilities, bit) == (capabilities \div bit) % 2 = 1

\* The version every instantiate_exact call of main asks for.
RequestedVersion == 1

\* What a server advertises for an interface: nothing (0), or the interface
\* at a version. instantiate_exact binds at the requested version, so a
\* global advertised at a higher version behaves as one advertised at it.
AdvertisedVersions == {0, RequestedVersion}

\* The interfaces a server may advertise, in the order it announces them.
Interfaces == <<"wl_compositor", "wl_shm", "wl_shell", "wl_seat">>
InterfaceSet == {Interfaces[i] : i \in 1..Len(Interfaces)}

\* An event on the wire: the object it is addressed to, its kind, and its
\* payload (an interface name and a number; unused parts are "" and 0).
Ev(obj, kind, name, arg) == [obj |-> obj, kind |-> kind, name |-> name, arg |-> arg]
NoEvent == Ev("none", "none", "", 0)

\* No bind is looked at alone.
NoProbe == [interface |-> "none", version |-> 0, result |-> "none"]

\* A request of the client, in the order written to the connection.
Req(req, name, arg) == [req |-> req, name |-> name, arg |-> arg]

\* The event sub-kinds the server can send to each kind of object.
ShellSurfaceKinds == {"ping", "configure"}
SeatKinds == {"capabilities", "name"}
PointerKinds == {"enter", "leave", "motion", "button", "axis"}
KeyboardKinds == {"enter", "leave", "key", "keymap"}

VARIABLES
    pc,                \* the statement of main() about to run
    advertised,        \* server: interface -> version (0: not advertised)
    wire,              \* events sent by the server and not yet read
    cur,               \* the event whose handler is running, or NoEvent
    handled,           \* events taken for the objects of main so far, in order
    requests,          \* requests written by the client so far, in order
    registry,          \* GlobalManager's list: interface -> version (0: none)
    proxies,           \* the protocol objects the client has created
    handler,           \* object -> the callback assigned to it ("none")
    done,              \* the sync callback of the running round-trip fired
    lifecycle,         \* Unbound, SurfaceCreated or TopLevel
    egl_surface,       \* the native window handle exists
    drawn,             \* draw_house has run
    pointer_created,   \* captured by the seat handler
    keyboard_created,  \* captured by the seat handler
    output,            \* the lines printed by common_filter, in order
    fallbacks,         \* invocations of the fallback closure of a call
    sent,              \* server: the events sent to objects of main, in order
    roundtrips,        \* the sync_roundtrip calls that have returned
    probe              \* a bind taken alone: its interface, version, outcome

vars == <<pc, advertised, wire, cur, handled, requests, registry, proxies,
          handler, done, lifecycle, egl_surface, drawn,
          pointer_created, keyboard_created, output, fallbacks, sent, roundtrips,
          probe>>

Objects == {"wl_registry", "wl_callback", "wl_shell_surface", "wl_seat",
            "wl_pointer", "wl_keyboard"}

\* ---------------------------------------------------------------- helpers
RECURSIVE GlobalEvents(_, _)
\* The wl_registry.global events a server sends for its globals from the
\* i-th interface on.
GlobalEvents(adv, i) ==
    IF i > Len(Interfaces) THEN <<>>
    ELSE (IF adv[Interfaces[i]] > 0
             THEN <<Ev("wl_registry", "global", Interfaces[i], adv[Interfaces[i]])>>
             ELSE <<>>)
         \o GlobalEvents(adv, i + 1)

\* Events for the objects main() creates and assigns handlers to (the
\* registry and the sync callback belong to the library).
ForMain(e) == e.obj \notin {"none", "wl_registry", "wl_callback"}

\* (mutant) the order the prose gives: draw and commit after the second
\* round-trip.
ProgramDrawAfterRoundtrip ==
    <<"globals", "roundtrip1", "roundtrip1_wait", "compositor",
      "create_surface", "shell", "get_shell_surface", "assign_shell_surface",
      "seat", "assign_seat", "roundtrip2", "roundtrip2_wait",
      "egl", "draw", "commit", "set_toplevel", "loop">>

\* (mutant) set_toplevel issued before the native window and the commit.
ProgramToplevelFirst ==
    <<"globals", "roundtrip1", "roundtrip1_wait", "compositor",
      "create_surface", "shell", "get_shell_surface", "assign_shell_surface",
      "set_toplevel", "egl", "draw", "commit", "seat", "assign_seat",
      "roundtrip2", "roundtrip2_wait", "loop">>

\* (mutant) main() entering the loop right after the seat handler is set.
ProgramNoSecondRoundtrip ==
    <<"globals", "roundtrip1", "roundtrip1_wait", "compositor",
      "create_surface", "shell", "get_shell_surface", "assign_shell_surface",
      "egl", "draw", "commit", "set_toplevel", "seat", "assign_seat", "loop">>

\* (mutant) main() setting the seat handler after the second round-trip.
ProgramRoundtripBeforeAssign ==
    <<"globals", "roundtrip1", "roundtrip1_wait", "compositor",
      "create_surface", "shell", "get_shell_surface", "assign_shell_surface",
      "egl", "draw", "commit", "set_toplevel", "seat", "roundtrip2",
      "roundtrip2_wait", "assign_seat", "loop">>

\* The statements of main() in program order; a blocking call is two: the
\* call and the wait inside it. The loop alternates "loop"/"dispatch_wait".
Program ==
    <<"globals", "roundtrip1", "roundtrip1_wait", "compositor",
      "create_surface", "shell", "get_shell_surface", "assign_shell_surface",
      "egl", "draw", "commit", "set_toplevel", "seat", "assign_seat",
      "roundtrip2", "roundtrip2_wait", "loop">>

\* The position of a statement in the program.
Index(p) == CHOOSE i \in 1..Len(Program) : Program[i] = p

\* The statement that runs after statement p completes.
After(p) == Program[Index(p) + 1]

\* The statements at which main() is blocked inside a call.
Waiting == {"roundtrip1_wait", "roundtrip2_wait", "dispatch_wait"}

Init ==
    /\ pc = "globals"
    /\ advertised \in [InterfaceSet -> AdvertisedVersions]
    /\ wire = <<>>
    /\ cur = NoEvent
    /\ handled = <<>>
    /\ requests = <<>>
    /\ registry = [i \in InterfaceSet |-> 0]
    /\ proxies = {}
    /\ handler = [o \in Objects |-> "none"]
    /\ done = FALSE
    /\ lifecycle = "Unbound"
    /\ egl_surface = FALSE
    /\ drawn = FALSE
    /\ pointer_created = FALSE
    /\ keyboard_created = FALSE
    /\ output = <<>>
    /\ fallbacks = 0
    /\ sent = <<>>
    /\ roundtrips = 0
    /\ probe = NoProbe


\* ------------------------------------------------- the steps of main()
\* (mutant) a registry created without the manager's handler.
GlobalManagerNewUnassigned ==
    /\ pc = "globals"
    /\ requests' = Append(requests, Req("get_registry", "", 0))
    /\ proxies' = proxies \cup {"wl_registry"}
    /\ wire' = wire \o GlobalEvents(advertised, 1)
    /\ pc' = After(pc)
    /\ UNCHANGED <<probe, advertised, cur, handled, registry, handler, done,
                   lifecycle, egl_surface, drawn, pointer_created,
                   keyboard_created, output, fallbacks, sent, roundtrips>>

\* GlobalManager::new: get_registry; the server answers with its globals.
GlobalManagerNew ==
    /\ pc = "globals"
    /\ requests' = Append(requests, Req("get_registry", "", 0))
    /\ proxies' = proxies \cup {"wl_registry"}
    /\ handler' = [handler EXCEPT !["wl_registry"] = "GlobalManager"]
    /\ wire' = wire \o GlobalEvents(advertised, 1)
    /\ pc' = After(pc)
    /\ UNCHANGED <<probe, advertised, cur, handled, registry, done, lifecycle,
                   egl_surface, drawn, pointer_created, keyboard_created,
                   output, fallbacks, sent, roundtrips>>

\* (mutant) sync_roundtrip returns without waiting for its callback.
RoundtripCompleteEarly == TRUE

\* sync_roundtrip loops until its callback has fired.
RoundtripComplete == done

\* sync_roundtrip, the call: wl_display.sync; the server answers done after
\* everything it has sent so far.
SyncRoundtrip ==
    /\ pc \in {"roundtrip1", "roundtrip2"}
    /\ requests' = Append(requests, Req("sync", "", 0))
    /\ proxies' = proxies \cup {"wl_callback"}
    /\ handler' = [handler EXCEPT !["wl_callback"] = "sync"]
    /\ wire' = Append(wire, Ev("wl_callback", "done", "", 0))
    /\ done' = FALSE
    /\ pc' = After(pc)
    /\ UNCHANGED <<probe, advertised, cur, handled, registry, lifecycle,
                   egl_surface, drawn, pointer_created, keyboard_created,
                   output, fallbacks, sent, roundtrips>>

\* sync_roundtrip returns once the callback fired and no handler is running.
RoundtripReturn ==
    /\ pc \in {"roundtrip1_wait", "roundtrip2_wait"}
    /\ RoundtripComplete
    /\ cur = NoEvent
    /\ roundtrips' = roundtrips + 1
    /\ pc' = After(pc)
    /\ UNCHANGED <<probe, advertised, wire, cur, handled, requests, registry, proxies,
                   handler, done, lifecycle, egl_surface, drawn,
                   pointer_created, keyboard_created, output, fallbacks, sent>>

\* (mutant) a bind that does not look the interface up.
instantiate_unchecked(reg, interface, version) == "Ok"

\* (mutant) a bind that looks at the interface name only.
instantiate_any_version(reg, interface, version) ==
    IF reg[interface] = 0 THEN "Missing" ELSE "Ok"

\* GlobalManager::instantiate_exact: the outcome of binding an interface.
instantiate_exact(reg, interface, version) ==
    IF reg[interface] = 0 THEN "Missing"
    ELSE IF reg[interface] < version THEN "VersionTooLow"
    ELSE "Ok"

\* (mutant) a bind whose failure main() does not look at.
BindIgnoringError(interface, at) ==
    /\ pc = at
    /\ requests' = Append(requests, Req("bind", interface, RequestedVersion))
    /\ pc' = After(pc)

\* A bind of main followed by unwrap/expect: the bind request, or a panic.
Bind(interface, at) ==
    /\ pc = at
    /\ IF instantiate_exact(registry, interface, RequestedVersion) = "Ok"
          THEN /\ requests' = Append(requests, Req("bind", interface, RequestedVersion))
               /\ pc' = After(pc)
          ELSE /\ requests' = requests
               /\ pc' = "panicked"

InstantiateCompositor ==
    /\ Bind("wl_compositor", "compositor")
    /\ UNCHANGED <<probe, advertised, wire, cur, handled, registry, proxies, handler,
                   done, lifecycle, egl_surface, drawn, pointer_created,
                   keyboard_created, output, fallbacks, sent, roundtrips>>

CreateSurface ==
    /\ pc = "create_surface"
    /\ requests' = Append(requests, Req("create_surface", "", 0))
    /\ lifecycle' = "SurfaceCreated"
    /\ pc' = After(pc)
    /\ UNCHANGED <<probe, advertised, wire, cur, handled, registry, proxies, handler,
                   done, egl_surface, drawn, pointer_created,
                   keyboard_created, output, fallbacks, sent, roundtrips>>

InstantiateShell ==
    /\ Bind("wl_shell", "shell")
    /\ UNCHANGED <<probe, advertised, wire, cur, handled, registry, proxies, handler,
                   done, lifecycle, egl_surface, drawn, pointer_created,
                   keyboard_created, output, fallbacks, sent, roundtrips>>

GetShellSurface ==
    /\ pc = "get_shell_surface"
    /\ requests' = Append(requests, Req("get_shell_surface", "", 0))
    /\ proxies' = proxies \cup {"wl_shell_surface"}
    /\ pc' = After(pc)
    /\ UNCHANGED <<probe, advertised, wire, cur, handled, registry, handler, done,
                   lifecycle, egl_surface, drawn, pointer_created,
                   keyboard_created, output, fallbacks, sent, roundtrips>>

AssignShellSurface ==
    /\ pc = "assign_shell_surface"
    /\ handler' = [handler EXCEPT !["wl_shell_surface"] = "shell_surface"]
    /\ pc' = After(pc)
    /\ UNCHANGED <<probe, advertised, wire, cur, handled, requests, registry, proxies,
                   done, lifecycle, egl_surface, drawn, pointer_created,
                   keyboard_created, output, fallbacks, sent, roundtrips>>

\* EGL bring-up and WlEglSurface::new: the native window handle.
EglWindow ==
    /\ pc = "egl"
    /\ egl_surface' = TRUE
    /\ pc' = After(pc)
    /\ UNCHANGED <<probe, advertised, wire, cur, handled, requests, registry, proxies,
                   handler, done, lifecycle, drawn, pointer_created,
                   keyboard_created, output, fallbacks, sent, roundtrips>>

DrawHouse ==
    /\ pc = "draw"
    /\ drawn' = TRUE
    /\ pc' = After(pc)
    /\ UNCHANGED <<probe, advertised, wire, cur, handled, requests, registry, proxies,
                   handler, done, lifecycle, egl_surface, pointer_created,
                   keyboard_created, output, fallbacks, sent, roundtrips>>

\* An unwrap/expect of the EGL bring-up or the renderer's constructor fails.
RenderPanic ==
    /\ pc \in {"egl", "draw"}
    /\ pc' = "panicked"
    /\ UNCHANGED <<probe, advertised, wire, cur, handled, requests, registry, proxies,
                   handler, done, lifecycle, egl_surface, drawn,
                   pointer_created, keyboard_created, output, fallbacks, sent, roundtrips>>

Commit ==
    /\ pc = "commit"
    /\ requests' = Append(requests, Req("commit", "", 0))
    /\ pc' = After(pc)
    /\ UNCHANGED <<probe, advertised, wire, cur, handled, registry, proxies, handler,
                   done, lifecycle, egl_surface, drawn, pointer_created,
                   keyboard_created, output, fallbacks, sent, roundtrips>>

SetToplevel ==
    /\ pc = "set_toplevel"
    /\ requests' = Append(requests, Req("set_toplevel", "", 0))
    /\ lifecycle' = "TopLevel"
    /\ pc' = After(pc)
    /\ UNCHANGED <<probe, advertised, wire, cur, handled, registry, proxies, handler,
                   done, egl_surface, drawn, pointer_created,
                   keyboard_created, output, fallbacks, sent, roundtrips>>

\* The seat bind; the server answers a bind of the seat with the seat's
\* current capabilities.
InstantiateSeat ==
    /\ Bind("wl_seat", "seat")
    /\ IF pc' # "panicked"
          THEN /\ proxies' = proxies \cup {"wl_seat"}
               /\ \E c \in AllCapabilities :
                     /\ wire' = Append(wire, Ev("wl_seat", "capabilities", "", c))
                     /\ sent' = Append(sent, Ev("wl_seat", "capabilities", "", c))
          ELSE UNCHANGED <<proxies, wire, sent>>
    /\ UNCHANGED <<probe, advertised, cur, handled, registry, handler, done,
                   lifecycle, egl_surface, drawn, pointer_created,
                   keyboard_created, output, fallbacks, roundtrips>>

AssignSeat ==
    /\ pc = "assign_seat"
    /\ handler' = [handler EXCEPT !["wl_seat"] = "seat"]
    /\ pc' = After(pc)
    /\ UNCHANGED <<probe, advertised, wire, cur, handled, requests, registry, proxies,
                   done, lifecycle, egl_surface, drawn, pointer_created,
                   keyboard_created, output, fallbacks, sent, roundtrips>>

\* ------------------------------------------------------- reading events
\* (mutant) events are read while a handler is still running.
MayTakeReentrant == TRUE

\* A blocking call may read the next event only between handler invocations.
MayTake == cur = NoEvent

\* (mutant) of the events for main's objects, the newest is read first.
NewestEvent(w) == IF ForMain(Head(w)) THEN w[Len(w)] ELSE Head(w)

\* The event a blocking call reads next: the oldest unread one.
NextEvent(w) == Head(w)

\* Reading one event off the connection: its handler is about to be invoked.
Read ==
    /\ cur' = NextEvent(wire)
    /\ wire' = Tail(wire)
    /\ handled' = IF ForMain(NextEvent(wire))
                     THEN Append(handled, NextEvent(wire)) ELSE handled

\* A blocking call that is under way reads one more event.
Take ==
    /\ pc \in Waiting
    /\ MayTake
    /\ wire # <<>>
    /\ Read
    /\ UNCHANGED <<probe, pc, advertised, requests, registry, proxies, handler, done,
                   lifecycle, egl_surface, drawn, pointer_created,
                   keyboard_created, output, fallbacks, sent, roundtrips>>

\* One iteration of the loop: dispatch blocks until an event is available
\* and reads it ...
DispatchCall ==
    /\ pc = "loop"
    /\ wire # <<>>
    /\ Read
    /\ pc' = "dispatch_wait"
    /\ UNCHANGED <<probe, advertised, requests, registry, proxies, handler, done,
                   lifecycle, egl_surface, drawn, pointer_created,
                   keyboard_created, output, fallbacks, sent, roundtrips>>

\* (mutant) the loop is left after one dispatch call.
DispatchReturnBreak ==
    /\ pc = "dispatch_wait"
    /\ cur = NoEvent
    /\ pc' = "returned"
    /\ UNCHANGED <<probe, advertised, wire, cur, handled, requests, registry, proxies,
                   handler, done, lifecycle, egl_surface, drawn,
                   pointer_created, keyboard_created, output, fallbacks, sent,
                   roundtrips>>

\* ... and returns when no handler is running.
DispatchReturn ==
    /\ pc = "dispatch_wait"
    /\ cur = NoEvent
    /\ pc' = "loop"
    /\ UNCHANGED <<probe, advertised, wire, cur, handled, requests, registry, proxies,
                   handler, done, lifecycle, egl_surface, drawn,
                   pointer_created, keyboard_created, output, fallbacks, sent,
                   roundtrips>>

\* A blocking call returns Err (the connection failed) and unwrap panics.
ConnectionError ==
    /\ pc \in Waiting \cup {"loop"}
    /\ cur = NoEvent
    /\ pc' = "panicked"
    /\ UNCHANGED <<probe, advertised, wire, cur, handled, requests, registry, proxies,
                   handler, done, lifecycle, egl_surface, drawn,
                   pointer_created, keyboard_created, output, fallbacks, sent, roundtrips>>


\* ------------------------------------------------------- event delivery
\* (mutant) every shell surface event is answered with a pong.
ShellSurfaceHandlerAnyEvent(event) == <<Req("pong", "", event.arg)>>

\* (mutant) a shell surface handler that makes a new surface when the
\* server sends anything but a ping.
ShellSurfaceHandlerRecreate(event) ==
    IF event.kind = "ping"
        THEN <<Req("pong", "", event.arg)>>
        ELSE <<Req("create_surface", "", 0), Req("get_shell_surface", "", 0)>>

\* The shell surface's handler: the requests it issues for an event.
ShellSurfaceHandler(event) ==
    IF event.kind = "ping" THEN <<Req("pong", "", event.arg)>> ELSE <<>>

\* (mutant) the pointer test without its flag.
CreatePointerUnguarded(created, event) ==
    event.kind = "capabilities" /\ contains(event.arg, Pointer)

\* The seat handler's first test: is the pointer to be created now?
CreatePointer(created, event) ==
    event.kind = "capabilities" /\ ~created /\ contains(event.arg, Pointer)

\* (mutant) the keyboard test looking at the pointer's bit.
CreateKeyboardOnPointerBit(created, event) ==
    event.kind = "capabilities" /\ ~created /\ contains(event.arg, Pointer)

\* The seat handler's second test: is the keyboard to be created now?
CreateKeyboard(created, event) ==
    event.kind = "capabilities" /\ ~created /\ contains(event.arg, Keyboard)

\* (mutant) the flag follows the bit, so a withdrawn capability clears it.
FlagFollowsBit(created, event, bit) ==
    IF event.kind = "capabilities" THEN contains(event.arg, bit) ELSE created

\* (mutant) a flag the seat handler never sets.
FlagStays(created, event, bit) == created

\* A created-flag after the handler ran on an event, for the flag's bit.
FlagAfter(created, event, bit) ==
    IF event.kind = "capabilities" /\ ~created /\ contains(event.arg, bit)
        THEN TRUE ELSE created

\* event_enum! Events: the variant an object's events are wrapped in.
Events(obj) == IF obj = "wl_pointer" THEN "Pointer" ELSE "Keyboard"

\* (mutant) a common handler that reports the events it has no arm for.
common_filter_reporting(tag, event) ==
    IF tag = "Pointer" THEN
        CASE event.kind = "enter"  -> <<"Pointer entered at">>
          [] event.kind = "leave"  -> <<"Pointer left.">>
          [] event.kind = "motion" -> <<"Pointer moved to">>
          [] event.kind = "button" -> <<"Button">>
          [] OTHER -> <<"Unhandled pointer event">>
    ELSE
        CASE event.kind = "enter" -> <<"Gained keyboard focus.">>
          [] event.kind = "leave" -> <<"Lost keyboard focus.">>
          [] event.kind = "key"   -> <<"Key with id">>
          [] OTHER -> <<"Unhandled keyboard event">>

\* common_filter: the lines it prints for an event wrapped in a variant.
common_filter(tag, event) ==
    IF tag = "Pointer" THEN
        CASE event.kind = "enter"  -> <<"Pointer entered at">>
          [] event.kind = "leave"  -> <<"Pointer left.">>
          [] event.kind = "motion" -> <<"Pointer moved to">>
          [] event.kind = "button" -> <<"Button">>
          [] OTHER -> <<>>
    ELSE
        CASE event.kind = "enter" -> <<"Gained keyboard focus.">>
          [] event.kind = "leave" -> <<"Lost keyboard focus.">>
          [] event.kind = "key"   -> <<"Key with id">>
          [] OTHER -> <<>>

\* The handler of the event read last runs to its end.
Deliver ==
    /\ cur # NoEvent
    /\ cur' = NoEvent
    /\ LET h == handler[cur.obj]
           mkP == h = "seat" /\ CreatePointer(pointer_created, cur)
           mkK == h = "seat" /\ CreateKeyboard(keyboard_created, cur)
       IN  /\ registry' = IF h = "GlobalManager" /\ cur.kind = "global"
                             THEN [registry EXCEPT ![cur.name] = cur.arg]
                             ELSE registry
           /\ done' = IF h = "sync" THEN TRUE ELSE done
           /\ requests' = requests
                 \o (IF h = "shell_surface" THEN ShellSurfaceHandler(cur) ELSE <<>>)
                 \o (IF mkP THEN <<Req("get_pointer", "", 0)>> ELSE <<>>)
                 \o (IF mkK THEN <<Req("get_keyboard", "", 0)>> ELSE <<>>)
           /\ pointer_created' =
                 IF h = "seat" THEN FlagAfter(pointer_created, cur, Pointer) ELSE pointer_created
           /\ keyboard_created' =
                 IF h = "seat" THEN FlagAfter(keyboard_created, cur, Keyboard) ELSE keyboard_created
           /\ proxies' = proxies \cup (IF mkP THEN {"wl_pointer"} ELSE {})
                                 \cup (IF mkK THEN {"wl_keyboard"} ELSE {})
           /\ handler' = [o \in Objects |->
                            IF (o = "wl_pointer" /\ mkP) \/ (o = "wl_keyboard" /\ mkK)
                               THEN "common_filter" ELSE handler[o]]
           /\ output' = IF h = "common_filter"
                           THEN output \o common_filter(Events(cur.obj), cur)
                           ELSE output
           \* the closure passed to the call: unreachable!() in the first
           \* round-trip, empty afterwards
           /\ fallbacks' = IF h = "none" THEN fallbacks + 1 ELSE fallbacks
           /\ pc' = IF h = "none" /\ pc = "roundtrip1_wait" THEN "panicked" ELSE pc
    /\ UNCHANGED <<probe, advertised, wire, handled, lifecycle, egl_surface, drawn,
                   sent, roundtrips>>

\* ------------------------------------------------------------ the server
\* The events a server may send to the objects the client has created.
Sendable ==
    (IF "wl_shell_surface" \in proxies
        THEN {Ev("wl_shell_surface", "ping", "", s) : s \in 1..MaxSerial}
             \cup {Ev("wl_shell_surface", k, "", 0) : k \in ShellSurfaceKinds \ {"ping"}}
        ELSE {})
    \cup (IF "wl_seat" \in proxies
        THEN {Ev("wl_seat", "capabilities", "", c) : c \in AllCapabilities}
             \cup {Ev("wl_seat", k, "", 0) : k \in SeatKinds \ {"capabilities"}}
        ELSE {})
    \cup (IF "wl_pointer" \in proxies
        THEN {Ev("wl_pointer", k, "", 0) : k \in PointerKinds} ELSE {})
    \cup (IF "wl_keyboard" \in proxies
        THEN {Ev("wl_keyboard", k, "", 0) : k \in KeyboardKinds} ELSE {})

\* The events the server sent of its own accord: all but the answer to
\* the seat bind.
Unprompted == Len(sent) - (IF "wl_seat" \in proxies THEN 1 ELSE 0)

ServerSend ==
    /\ pc # "panicked"
    /\ Unprompted < MaxEvents
    /\ \E e \in Sendable : /\ wire' = Append(wire, e)
                           /\ sent' = Append(sent, e)
    /\ UNCHANGED <<probe, pc, advertised, cur, handled, requests, registry, proxies,
                   handler, done, lifecycle, egl_surface, drawn,
                   pointer_created, keyboard_created, output, fallbacks,
                   roundtrips>>

Next ==
    \/ GlobalManagerNew
    \/ SyncRoundtrip
    \/ RoundtripReturn
    \/ InstantiateCompositor
    \/ CreateSurface
    \/ InstantiateShell
    \/ GetShellSurface
    \/ AssignShellSurface
    \/ EglWindow
    \/ DrawHouse
    \/ RenderPanic
    \/ Commit
    \/ SetToplevel
    \/ InstantiateSeat
    \/ AssignSeat
    \/ DispatchCall
    \/ DispatchReturn
    \/ ConnectionError
    \/ Take
    \/ Deliver
    \/ ServerSend

Spec == Init /\ [][Next]_vars

\* ------------------------------------------------------- a bind taken alone
\* globals.instantiate_exact::<I>(v).unwrap() for any interface I and
\* version v, on any registry the discovery round-trip can have left.
InitBind ==
    /\ pc = "bind"
    /\ registry \in [InterfaceSet -> 0..MaxVersion]
    /\ advertised = registry
    /\ probe \in [interface : InterfaceSet, version : 1..MaxVersion,
                   result : {"none"}]
    /\ wire = <<>>
    /\ cur = NoEvent
    /\ handled = <<>>
    /\ requests = <<>>
    /\ proxies = {"wl_registry"}
    /\ handler = [o \in Objects |->
                    IF o = "wl_registry" THEN "GlobalManager" ELSE "none"]
    /\ done = TRUE
    /\ lifecycle = "Unbound"
    /\ egl_surface = FALSE
    /\ drawn = FALSE
    /\ pointer_created = FALSE
    /\ keyboard_created = FALSE
    /\ output = <<>>
    /\ fallbacks = 0
    /\ sent = <<>>
    /\ roundtrips = 1

InstantiateProbe ==
    /\ pc = "bind"
    /\ LET r == instantiate_exact(registry, probe.interface, probe.version)
       IN  /\ probe' = [probe EXCEPT !.result = r]
           /\ IF r = "Ok"
                 THEN /\ requests' = Append(requests,
                                     Req("bind", probe.interface, probe.version))
                      /\ proxies' = proxies \cup {probe.interface}
                      /\ pc' = "bound"
                 ELSE /\ requests' = requests
                      /\ proxies' = proxies
                      /\ pc' = "panicked"
    /\ UNCHANGED <<advertised, wire, cur, handled, registry, handler, done,
                   lifecycle, egl_surface, drawn, pointer_created,
                   keyboard_created, output, fallbacks, sent, roundtrips>>

NextBind == InstantiateProbe

SpecBind == InitBind /\ [][NextBind]_vars

TypeOK ==
    /\ pointer_created \in BOOLEAN
    /\ keyboard_created \in BOOLEAN
    /\ Unprompted <= MaxEvents


\* ------------------------------------------------------------ observables
\* The requests of one kind the client has issued.
IsGetPointer(r) == r.req = "get_pointer"
IsGetKeyboard(r) == r.req = "get_keyboard"
IsPong(r) == r.req = "pong"
IsSync(r) == r.req = "sync"

\* The pointer and keyboard devices created so far.
PointerDevices == Len(SelectSeq(requests, IsGetPointer))
KeyboardDevices == Len(SelectSeq(requests, IsGetKeyboard))

\* Has main() issued this request, this bind?
Issued(req) == \E i \in 1..Len(requests) : requests[i].req = req
IssuedBind(interface) ==
    \E i \in 1..Len(requests) :
        requests[i].req = "bind" /\ requests[i].name = interface

\* The events whose handler invocation has returned.
Completed ==
    IF ForMain(cur) THEN SubSeq(handled, 1, Len(handled) - 1) ELSE handled

IsPing(e) == e.obj = "wl_shell_surface" /\ e.kind = "ping"
IsCapabilities(e) == e.obj = "wl_seat" /\ e.kind = "capabilities"
HasPointerBit(e) == IsCapabilities(e) /\ contains(e.arg, Pointer)
HasKeyboardBit(e) == IsCapabilities(e) /\ contains(e.arg, Keyboard)

\* The payloads of a sequence of events or requests.
Args(s) == [i \in 1..Len(s) |-> s[i].arg]

\* The serials of the pongs sent, and of the pings in a sequence of events.
PongSerials == Args(SelectSeq(requests, IsPong))
PingSerials(s) == Args(SelectSeq(s, IsPing))

\* The capability sets the seat handler has been run on.
CapabilitiesCompleted == Args(SelectSeq(Completed, IsCapabilities))

\* ------------------------------------------------------------------ C1
\* C1: whatever Capabilities notifications the seat handler receives, at
\* most one pointer and at most one keyboard device are created, and the
\* pointer device exists exactly from the first notification with the
\* Pointer bit on.
C1_DevicesCreatedOnce ==
    /\ PointerDevices <= 1
    /\ KeyboardDevices <= 1
    /\ (PointerDevices = 1) <=> (Len(SelectSeq(Completed, HasPointerBit)) >= 1)

\* Two notifications with the Pointer bit have been handled.
C1_Witness ==
    /\ Len(SelectSeq(Completed, HasPointerBit)) >= 2
    /\ PointerDevices = 1

\* ------------------------------------------------------------------ C2
\* C2: the pongs sent are exactly the serials of the pings handled, in the
\* same order: one pong per ping, none without a ping.
C2_PongsEchoPings == PongSerials = PingSerials(Completed)

\* Two pings with different serials have been answered.
C2_Witness == PongSerials = <<2, 1>>

\* ------------------------------------------------------------------ C3
\* Every ping read so far has been answered.
Answered == PongSerials = PingSerials(handled)

\* C3: the pong goes out inside the ping's handler invocation: when the
\* next event is read, and when the blocking call returns, every ping read
\* has its pong.
C3_PongBeforeNextEvent ==
    [][ /\ (handled' # handled => Answered)
        /\ (pc \in Waiting /\ pc' \notin Waiting => Answered') ]_vars

\* A ping was answered and the event after it is being handled.
C3_Witness ==
    /\ pc = "dispatch_wait"
    /\ Len(handled) >= 2
    /\ IsPing(handled[Len(handled) - 1])
    /\ cur = handled[Len(handled)]
    /\ Answered


\* ------------------------------------------------------------------ C4
\* main() has entered the dispatch loop.
InLoop == pc \in {"loop", "dispatch_wait"}

LifecycleStep ==
    \/ lifecycle' = lifecycle
    \/ lifecycle = "Unbound" /\ lifecycle' = "SurfaceCreated"
    \/ lifecycle = "SurfaceCreated" /\ lifecycle' = "TopLevel"

\* This step creates the native window handle, or issues the commit.
HandoffOrCommitStep ==
    \/ egl_surface' # egl_surface
    \/ Issued("commit")' /\ ~Issued("commit")

C6_NoShellNoLoop ==
    advertised["wl_shell"] = 0 =>
        /\ pc \in {"globals", "roundtrip1", "roundtrip1_wait", "compositor",
                   "create_surface", "shell", "panicked"}
        /\ ~IssuedBind("wl_shell") /\ ~IssuedBind("wl_seat")
        /\ ~Issued("get_shell_surface")
        /\ Len(SelectSeq(requests, IsSync)) <= 1
        /\ lifecycle # "TopLevel"

\* The shell bind failed after the surface was created.
C6_Witness ==
    /\ advertised["wl_shell"] = 0
    /\ Issued("create_surface")
    /\ pc = "panicked"

\* ------------------------------------------------------------------ C7
\* This step issues a bind request.
BindStep ==
    /\ Len(requests') = Len(requests) + 1
    /\ requests'[Len(requests')].req = "bind"

\* C7: every bind is attempted after the first round-trip has returned and
\* with the registry holding all the server advertised, and a bind leaves
\* the registry as it is.
C7_RegistryBeforeBind ==
    /\ [](pc \in {"compositor", "shell", "seat"} =>
             roundtrips >= 1 /\ registry = advertised)
    /\ [][BindStep => roundtrips >= 1 /\ registry = advertised
                      /\ registry' = registry]_vars

\* The three binds were issued with a registry of four globals.
C7_Witness ==
    /\ IssuedBind("wl_seat")
    /\ advertised["wl_shm"] > 0
    /\ registry = advertised


\* ------------------------------------------------------------------ C8
\* This step is the seat handler returning from a Capabilities event.
CapabilitiesStep ==
    /\ IsCapabilities(cur)
    /\ handler["wl_seat"] = "seat"
    /\ cur' = NoEvent

\* This step leaves the pointer device and its flag (the keyboard's) alone.
PointerUntouched ==
    /\ pointer_created' = pointer_created
    /\ PointerDevices' = PointerDevices
    /\ handler'["wl_pointer"] = handler["wl_pointer"]
KeyboardUntouched ==
    /\ keyboard_created' = keyboard_created
    /\ KeyboardDevices' = KeyboardDevices
    /\ handler'["wl_keyboard"] = handler["wl_keyboard"]

\* C8: a notification with the Keyboard bit alone creates the keyboard (if
\* there is none) and leaves the pointer's flag and device alone, and the
\* same with the two swapped; a notification arriving when the pointer
\* exists leaves the pointer alone; after {Pointer} there is one pointer and
\* no keyboard, after {Pointer}, {Pointer, Keyboard} one of each.
C8_FlagIndependence ==
    /\ [][CapabilitiesStep =>
            /\ cur.arg = Keyboard =>
                  /\ PointerUntouched
                  /\ ~keyboard_created =>
                        keyboard_created' /\ KeyboardDevices' = KeyboardDevices + 1
            /\ cur.arg = Pointer =>
                  /\ KeyboardUntouched
                  /\ ~pointer_created =>
                        pointer_created' /\ PointerDevices' = PointerDevices + 1
            /\ pointer_created => PointerUntouched ]_vars
    /\ [](CapabilitiesCompleted = <<Keyboard>> =>
             /\ KeyboardDevices = 1 /\ keyboard_created
             /\ PointerDevices = 0 /\ ~pointer_created)
    /\ [](CapabilitiesCompleted = <<Pointer>> =>
             /\ PointerDevices = 1 /\ pointer_created
             /\ KeyboardDevices = 0 /\ ~keyboard_created)
    /\ [](CapabilitiesCompleted = <<Pointer, Pointer + Keyboard>> =>
             PointerDevices = 1 /\ KeyboardDevices = 1)

\* {Pointer} and then {Pointer, Keyboard} have been handled.
C8_Witness ==
    /\ CapabilitiesCompleted = <<Pointer, Pointer + Keyboard>>
    /\ PointerDevices = 1
    /\ KeyboardDevices = 1

\* ------------------------------------------------------------------ C9
\* The handled notifications advertise the bit, withdraw it and advertise
\* it again.
AdvertisedAgain(bit) ==
    \E i, j, k \in 1..Len(CapabilitiesCompleted) :
        /\ i < j /\ j < k
        /\ contains(CapabilitiesCompleted[i], bit)
        /\ ~contains(CapabilitiesCompleted[j], bit)
        /\ contains(CapabilitiesCompleted[k], bit)

\* C9: a created-flag never goes back to false; a notification without a
\* device's bit changes neither its flag nor the device; a capability
\* advertised, withdrawn and advertised again has one device.
C9_FlagsMonotonic ==
    /\ [][ /\ pointer_created => pointer_created'
           /\ keyboard_created => keyboard_created'
           /\ CapabilitiesStep /\ ~contains(cur.arg, Pointer) => PointerUntouched
           /\ CapabilitiesStep /\ ~contains(cur.arg, Keyboard) => KeyboardUntouched
         ]_vars
    /\ [](AdvertisedAgain(Pointer) => PointerDevices = 1 /\ pointer_created)
    /\ [](AdvertisedAgain(Keyboard) => KeyboardDevices = 1 /\ keyboard_created)

\* The pointer capability was advertised, withdrawn and advertised again.
C9_Witness == AdvertisedAgain(Pointer) /\ PointerDevices = 1

\* ------------------------------------------------------------------ C10
\* The sub-kinds with a side effect, and the side effect of each.
Matched(e) ==
    \/ e.obj = "wl_pointer" /\ e.kind \in {"enter", "leave", "motion", "button"}
    \/ e.obj = "wl_keyboard" /\ e.kind \in {"enter", "leave", "key"}
SideEffect(e) ==
    IF e.obj = "wl_pointer"
        THEN CASE e.kind = "enter"  -> "Pointer entered at"
               [] e.kind = "leave"  -> "Pointer left."
               [] e.kind = "motion" -> "Pointer moved to"
               [] e.kind = "button" -> "Button"
        ELSE CASE e.kind = "enter" -> "Gained keyboard focus."
               [] e.kind = "leave" -> "Lost keyboard focus."
               [] e.kind = "key"   -> "Key with id"
SideEffects(s) ==
    [i \in 1..Len(SelectSeq(s, Matched)) |-> SideEffect(SelectSeq(s, Matched)[i])]

\* C10: events are handled in the order the server sent them, one at a
\* time: what was read and what is still unread is what was sent, the lines
\* printed are the side effects of the matched events handled, in order,
\* and an event is read only when the handlers of all earlier ones returned.
C10_InputInOrder ==
    /\ [](handled \o SelectSeq(wire, ForMain) = sent)
    /\ [](output = SideEffects(Completed))
    /\ [][handled' # handled => cur = NoEvent /\ output = SideEffects(handled)]_vars

\* A keyboard event and then a pointer event have been printed.
C10_Witness == output = <<"Key with id", "Button">>

ProbeSatisfied ==
    /\ registry[probe.interface] # 0
    /\ registry[probe.interface] >= probe.version

Syncs == Len(SelectSeq(requests, IsSync))

\* C13: main() makes exactly two round-trips: the first before any bind,
\* the second after the seat handler is set. When the second has returned,
\* the Capabilities notification sent in answer to the seat bind has been
\* handled, so the devices for the capabilities it advertises exist, with
\* their handler, before the first iteration of the loop.
C13_TwoRoundtrips ==
    /\ Syncs <= 2 /\ roundtrips <= Syncs
    /\ InLoop => Syncs = 2 /\ roundtrips = 2
    /\ Issued("bind") => roundtrips >= 1
    /\ Syncs = 2 => handler["wl_seat"] = "seat"
    /\ roundtrips = 2 =>
          /\ CapabilitiesCompleted # <<>>
          /\ contains(CapabilitiesCompleted[1], Pointer) =>
                PointerDevices = 1 /\ handler["wl_pointer"] = "common_filter"
          /\ contains(CapabilitiesCompleted[1], Keyboard) =>
                KeyboardDevices = 1 /\ handler["wl_keyboard"] = "common_filter"

\* The loop is about to run its first iteration: the seat's answer, which
\* advertised a pointer and a keyboard, is the one seat event handled, and
\* both devices exist.
C13_Witness ==
    /\ pc = "loop"
    /\ roundtrips = 2
    /\ CapabilitiesCompleted = <<Pointer + Keyboard>>
    /\ PointerDevices = 1 /\ KeyboardDevices = 1
    /\ output = <<>>

\* ------------------------------------------------------------------ C14
IsCreateSurface(r) == r.req = "create_surface"
IsGetShellSurface(r) == r.req = "get_shell_surface"

\* The surfaces and the shell surfaces created so far.
Surfaces == Len(SelectSeq(requests, IsCreateSurface))
ShellSurfaces == Len(SelectSeq(requests, IsGetShellSurface))

\* C14: there is never more than one surface and one shell surface: main()
\* creates each once during startup, and however many events are handled
\* afterwards, no handler creates another.
C14_OneSurface ==
    /\ Surfaces <= 1 /\ ShellSurfaces <= 1
    /\ ShellSurfaces <= Surfaces
    /\ lifecycle # "Unbound" <=> Surfaces = 1
    /\ "wl_shell_surface" \in proxies <=> ShellSurfaces = 1
    /\ InLoop => Surfaces = 1 /\ ShellSurfaces = 1

\* The loop has handled a shell surface event that is not a ping and a
\* seat event, and the one surface is still the only one.
C14_Witness ==
    /\ InLoop
    /\ cur = NoEvent
    /\ \E i \in 1..Len(handled) :
          handled[i].obj = "wl_shell_surface" /\ handled[i].kind = "configure"
    /\ Len(CapabilitiesCompleted) >= 2
    /\ Surfaces = 1 /\ ShellSurfaces = 1

\* ------------------------------------------------------------------ C15
\* An event no arm of its handler names: a pointer event other than Enter,
\* Leave, Motion, Button; a keyboard event other than Enter, Leave, Key; a
\* shell surface event other than Ping.
Unmatched(e) ==
    \/ e.obj = "wl_pointer" /\ e.kind \notin {"enter", "leave", "motion", "button"}
    \/ e.obj = "wl_keyboard" /\ e.kind \notin {"enter", "leave", "key"}
    \/ e.obj = "wl_shell_surface" /\ e.kind # "ping"

\* C15: the handling of an unmatched event prints nothing, sends nothing,
\* changes no flag, device or handler, and is no error: the blocking call
\* goes on to the next event.
C15_UnmatchedIgnored ==
    [][ Unmatched(cur) /\ cur' = NoEvent =>
          /\ output' = output
          /\ requests' = requests
          /\ pointer_created' = pointer_created
          /\ keyboard_created' = keyboard_created
          /\ proxies' = proxies /\ handler' = handler
          /\ fallbacks' = fallbacks
          /\ pc' = pc /\ pc \in Waiting ]_vars

\* An unmatched pointer event was handled, and the button event after it
\* printed its line as usual.
C15_Witness ==
    /\ Len(Completed) >= 3
    /\ Completed[Len(Completed) - 1] = Ev("wl_pointer", "axis", "", 0)
    /\ Completed[Len(Completed)] = Ev("wl_pointer", "button", "", 0)
    /\ output = <<"Button">>
    /\ pc # "panicked"

\* ------------------------------------------------------------------ C16
\* The interfaces main() binds.
Required == {"wl_compositor", "wl_shell", "wl_seat"}

\* C16: the loop is entered only after the compositor, the shell and the
\* seat have all been bound; when the server lacks one of them, main()
\* never reaches the loop, and when it lacks the compositor, no surface is
\* ever created.
C16_LoopNeedsAllGlobals ==
    /\ InLoop => \A i \in Required : IssuedBind(i) /\ advertised[i] # 0
    /\ (\E i \in Required : advertised[i] = 0) => ~InLoop /\ roundtrips <= 1
    /\ advertised["wl_compositor"] = 0 =>
          /\ Surfaces = 0 /\ ShellSurfaces = 0
          /\ lifecycle = "Unbound"
          /\ ~Issued("bind")

\* The server has a compositor and a shell and no seat: main() made its
\* surface the toplevel and then stopped at the seat bind.
C16_Witness ==
    /\ advertised["wl_seat"] = 0
    /\ advertised["wl_compositor"] # 0 /\ advertised["wl_shell"] # 0
    /\ pc = "panicked"
    /\ lifecycle = "TopLevel"
    /\ ~IssuedBind("wl_seat")

\* ------------------------------------------------------------------ C17
\* The proxies main() gives a handler, and the handler each is given.
Handled == {"wl_shell_surface", "wl_seat", "wl_pointer", "wl_keyboard"}
OwnHandler(o) ==
    CASE o = "wl_shell_surface" -> "shell_surface"
      [] o = "wl_seat"          -> "seat"
      [] OTHER                  -> "common_filter"

\* C17: between the creation of the shell surface, the seat, the pointer or
\* the keyboard and the registration of its handler no event is dispatched:
\* every event read for one of them goes to its own handler, and the
\* closure passed to the round-trip or dispatch call is never run.
C17_NoEventBeforeHandler ==
    /\ fallbacks = 0
    /\ \A o \in Handled :
          o \in proxies /\ handler[o] # OwnHandler(o) =>
              /\ handler[o] = "none"
              /\ pc \notin Waiting
              /\ cur = NoEvent
    /\ ForMain(cur) => handler[cur.obj] = OwnHandler(cur.obj)

\* A ping, the seat's capabilities and a pointer event have been handled,
\* each by its own handler.
C17_Witness ==
    /\ PongSerials # <<>>
    /\ PointerDevices = 1
    /\ output # <<>>
    /\ fallbacks = 0
    /\ cur = NoEvent

\* ------------------------------------------------------------------ C18
\* C18: in the discovery round-trip every event dispatched is the
\* registry's or the sync callback's, each taken by the handler the
\* library gave its object, so the closure holding unreachable!() is never
\* run, whatever globals the server advertises.
C18_DiscoveryNeverFallsBack ==
    roundtrips = 0 =>
        /\ fallbacks = 0
        /\ cur # NoEvent =>
              /\ cur.obj \in {"wl_registry", "wl_callback"}
              /\ handler[cur.obj] \in {"GlobalManager", "sync"}
        /\ \A i \in 1..Len(wire) :
              wire[i].obj \in {"wl_registry", "wl_callback"}

\* The discovery round-trip has returned with the registry holding all
\* four globals the server advertised.
C18_Witness ==
    /\ roundtrips = 1
    /\ pc = "compositor"
    /\ \A i \in InterfaceSet : advertised[i] # 0
    /\ registry = advertised
    /\ fallbacks = 0

\* ------------------------------------------------------------------ C19
\* The device of this object exists, once, with the common handler under
\* this tag.
DeviceReady(o, devices, tag) ==
    /\ devices = 1
    /\ o \in proxies
    /\ handler[o] = "common_filter"
    /\ Events(o) = tag

\* There is no device of this object, and it has no handler.
NoDevice(o, devices) ==
    /\ devices = 0
    /\ o \notin proxies
    /\ handler[o] = "none"

====
